---- MODULE Spec2Model ----
(***************************************************************************)
(* Model of process_miner.log_retriever: the incremental log retrieval of  *)
(* LogRetriever.retrieve_logs (watermark file, fetch, grouping, labeling,  *)
(* one CSV file per group).                                                *)
(*                                                                         *)
(* Text is modelled as a sequence of characters (timestamps, correlation   *)
(* ids, file names) and a message as a sequence of words; str.find(w) != -1*)
(* is containment of the word w.  A timestamp text has the fixed format    *)
(* "d:d" (two digits around a colon), standing for the fixed-width         *)
(* ISO format of the log store; its value is the number of milliseconds.   *)
(***************************************************************************)
EXTENDS Integers, Sequences, FiniteSets, TLC

\* ------------------------------------------------------------------ bounds
\* Timestamps of log records range over 1..MaxTime (milliseconds after the epoch).
MaxTime == 3
\* Records the log store holds at most.
MaxStore == 2
\* Runs of retrieve_logs at most.
MaxRuns == 3
\* Lines of one fetch in SpecFetched at most.
MaxLines == 2

\* --------------------------------------------------------------- constants
EXPORTED_FIELDS == <<"correlationId", "timestamp", "message">>
ADDED_FIELDS == <<"approach", "consent">>
APPROACHES_TYPES == <<"redirect", "embedded", "OAuth", "Decoupled", "not available">>
APPROACHES_SIGNAL_WORDS ==
    <<"approach=REDIRECT", "approach=EMBEDDED", "approach=OAUTH", "approach=DECOUPLED">>
CONSENT_TYPES == <<"GET_ACCOUNTS", "GET_TRANSACTIONS", "not available">>
CONSENT_SIGNAL_WORDS ==
    <<"GET_ACCOUNTS", "GET_TRANSACTIONS", "get account list", "get transaction list">>

\* ------------------------------------------------------------ input domains
\* The empty correlation id, and two ids that differ only in ':' against '_'.
CorrelationIds == { <<>>, <<"a", ":", "b">>, <<"a", "_", "b">> }

Messages ==
    { <<"started">>,
      <<"approach=OAUTH", "approach=EMBEDDED">>,
      <<"approach=REDIRECT", "GET_TRANSACTIONS", "GET_ACCOUNTS">>,
      <<"approach=DECOUPLED", "get account list">>,
      <<"get transaction list">> }

\* Messages of the records the log store gains in the multi-run specification.
StoreMessages == { <<"started">> }

\* -------------------------------------------------------------------- text
Digits == <<"0", "1", "2", "3", "4", "5", "6", "7", "8", "9">>

IsDigit(c) == \E n \in 1..10 : Digits[n] = c

DigitVal(c) == (CHOOSE n \in 1..10 : Digits[n] = c) - 1

\* Code point order of the characters of a timestamp text ('9' < ':').
CharOrd(c) == IF IsDigit(c) THEN DigitVal(c) ELSE 10

\* Python's str < str: lexicographic by character.
RECURSIVE StrLess(_, _)
StrLess(a, b) ==
    IF b = <<>> THEN FALSE
    ELSE IF a = <<>> THEN TRUE
    ELSE IF Head(a) # Head(b) THEN CharOrd(Head(a)) < CharOrd(Head(b))
    ELSE StrLess(Tail(a), Tail(b))

\* The timestamp text the log store exports for the time t (milliseconds).
FormatTimestamp(t) == <<Digits[(t \div 10) + 1], ":", Digits[(t % 10) + 1]>>

timestamp_format_is_valid(s) ==
    /\ Len(s) = 3
    /\ IsDigit(s[1])
    /\ s[2] = ":"
    /\ IsDigit(s[3])

get_datetime_from_timestamp(s) == 10 * DigitVal(s[1]) + DigitVal(s[3])

\* wholemessage.find(word) != -1
Found(wholemessage, word) == \E i \in 1..Len(wholemessage) : wholemessage[i] = word

Front(s) == SubSeq(s, 1, Len(s) - 1)

\* ---------------------------------------------------------- pure functions
\* Variant without the advance: the fetch starts at the watermark itself.
get_advanced_timestamp_same(timestamp) == timestamp

get_advanced_timestamp(timestamp) == timestamp + 1

sanitize_filename(filename) ==
    [i \in 1..Len(filename) |-> IF filename[i] = ":" THEN "_" ELSE filename[i]]

\* Variant without the 'unlabeled' lock: every later signal overwrites the label.
ApproachStepLastWins(st, wholemessage) ==
    LET redirect == Found(wholemessage, APPROACHES_SIGNAL_WORDS[1])
        embedded == Found(wholemessage, APPROACHES_SIGNAL_WORDS[2])
        oauth == Found(wholemessage, APPROACHES_SIGNAL_WORDS[3])
        decoupled == Found(wholemessage, APPROACHES_SIGNAL_WORDS[4])
        s1 == IF redirect THEN [st EXCEPT !.label = APPROACHES_TYPES[1]] ELSE st
        s2 == IF embedded THEN [s1 EXCEPT !.label = APPROACHES_TYPES[2]] ELSE s1
        s3 == IF oauth THEN [s2 EXCEPT !.label = APPROACHES_TYPES[3]] ELSE s2
        s4 == IF decoupled THEN [s3 EXCEPT !.label = APPROACHES_TYPES[4]] ELSE s3
    IN  IF s4.label = "[]" THEN [s4 EXCEPT !.label = APPROACHES_TYPES[5]] ELSE s4

\* One pass of the loop body of _add_approach over one message.
ApproachStep(st, wholemessage) ==
    LET redirect == Found(wholemessage, APPROACHES_SIGNAL_WORDS[1])
        embedded == Found(wholemessage, APPROACHES_SIGNAL_WORDS[2])
        oauth == Found(wholemessage, APPROACHES_SIGNAL_WORDS[3])
        decoupled == Found(wholemessage, APPROACHES_SIGNAL_WORDS[4])
        s1 == IF redirect /\ st.unlabeled
              THEN [label |-> APPROACHES_TYPES[1], unlabeled |-> FALSE] ELSE st
        s2 == IF embedded /\ s1.unlabeled
              THEN [label |-> APPROACHES_TYPES[2], unlabeled |-> FALSE] ELSE s1
        s3 == IF ~redirect /\ s2.unlabeled
              THEN [s2 EXCEPT !.label = APPROACHES_TYPES[5]] ELSE s2
        s4 == IF ~embedded /\ s3.unlabeled
              THEN [s3 EXCEPT !.label = APPROACHES_TYPES[5]] ELSE s3
        s5 == IF oauth /\ s4.unlabeled
              THEN [label |-> APPROACHES_TYPES[3], unlabeled |-> FALSE] ELSE s4
        s6 == IF decoupled /\ s5.unlabeled
              THEN [label |-> APPROACHES_TYPES[4], unlabeled |-> FALSE] ELSE s5
        s7 == IF ~oauth /\ s6.unlabeled
              THEN [s6 EXCEPT !.label = APPROACHES_TYPES[5]] ELSE s6
        s8 == IF ~decoupled /\ s7.unlabeled
              THEN [s7 EXCEPT !.label = APPROACHES_TYPES[5]] ELSE s7
    IN  s8

\* approach_list[correlation_id] after the first loop over the group's entries.
RECURSIVE ApproachScan(_, _, _)
ApproachScan(log_entries, i, st) ==
    IF i > Len(log_entries) THEN st.label
    ELSE ApproachScan(log_entries, i + 1, ApproachStep(st, log_entries[i].message))

add_approach(grouped_dict) ==
    [k \in 1..Len(grouped_dict) |->
        LET log_entries == grouped_dict[k].entries
            approach == ApproachScan(log_entries, 1, [label |-> "[]", unlabeled |-> TRUE])
        IN  [key |-> grouped_dict[k].key,
             entries |-> [j \in 1..Len(log_entries) |->
                 [correlationId |-> log_entries[j].correlationId,
                  timestamp |-> log_entries[j].timestamp,
                  message |-> log_entries[j].message,
                  approach |-> approach]]]]

\* The loop body of _add_consent: the 'consent' value of one entry.
ConsentStep(wholemessage) ==
    LET accounts == Found(wholemessage, CONSENT_SIGNAL_WORDS[1])
                        \/ Found(wholemessage, CONSENT_SIGNAL_WORDS[3])
        transactions == Found(wholemessage, CONSENT_SIGNAL_WORDS[2])
                            \/ Found(wholemessage, CONSENT_SIGNAL_WORDS[4])
        c1 == IF accounts THEN CONSENT_TYPES[1] ELSE "unset"
        c2 == IF transactions THEN CONSENT_TYPES[2] ELSE c1
        notlabeled == ~accounts /\ ~transactions
        c3 == IF ~accounts /\ notlabeled THEN CONSENT_TYPES[3] ELSE c2
        c4 == IF ~transactions /\ notlabeled THEN CONSENT_TYPES[3] ELSE c3
    IN  c4

add_consent(grouped_dict) ==
    [k \in 1..Len(grouped_dict) |->
        LET log_entries == grouped_dict[k].entries
        IN  [key |-> grouped_dict[k].key,
             entries |-> [j \in 1..Len(log_entries) |->
                 [correlationId |-> log_entries[j].correlationId,
                  timestamp |-> log_entries[j].timestamp,
                  message |-> log_entries[j].message,
                  approach |-> log_entries[j].approach,
                  consent |-> ConsentStep(log_entries[j].message)]]]]

\* Variant without the sort: the rows stay in fetch order.
sorted_by_timestamp_unsorted(rows) == rows

\* sorted(reader, key=row['timestamp']): stable, ascending by the timestamp text.
RECURSIVE sorted_by_timestamp(_)
sorted_by_timestamp(rows) ==
    IF rows = <<>> THEN <<>>
    ELSE LET s == sorted_by_timestamp(Front(rows))
             x == rows[Len(rows)]
             later == {i \in 1..Len(s) : StrLess(x.timestamp, s[i].timestamp)}
             p == IF later = {} THEN Len(s) + 1
                  ELSE CHOOSE i \in later : \A j \in later : i <= j
         IN  SubSeq(s, 1, p - 1) \o <<x>> \o SubSeq(s, p, Len(s))

\* Variant without the check for a missing correlationId.
RECURSIVE group_by_correlation_id_keep_empty(_)
group_by_correlation_id_keep_empty(rows) ==
    IF rows = <<>> THEN <<>>
    ELSE LET g == group_by_correlation_id_keep_empty(Front(rows))
             line == rows[Len(rows)]
             correlation_id == line.correlationId
         IN  IF \E k \in 1..Len(g) : g[k].key = correlation_id
             THEN [k \in 1..Len(g) |->
                      IF g[k].key = correlation_id
                      THEN [g[k] EXCEPT !.entries = Append(@, line)]
                      ELSE g[k]]
             ELSE Append(g, [key |-> correlation_id, entries |-> <<line>>])

\* The insertion-ordered dict of _group_by_correlation_id, as the sequence of
\* its (key, entries) items.
RECURSIVE group_by_correlation_id(_)
group_by_correlation_id(rows) ==
    IF rows = <<>> THEN <<>>
    ELSE LET g == group_by_correlation_id(Front(rows))
             line == rows[Len(rows)]
             correlation_id == line.correlationId
         IN  IF correlation_id = <<>> THEN g
             ELSE IF \E k \in 1..Len(g) : g[k].key = correlation_id
             THEN [k \in 1..Len(g) |->
                      IF g[k].key = correlation_id
                      THEN [g[k] EXCEPT !.entries = Append(@, line)]
                      ELSE g[k]]
             ELSE Append(g, [key |-> correlation_id, entries |-> <<line>>])

process_csv_lines(csv_lines) ==
    LET sorted_list == sorted_by_timestamp(csv_lines)
    IN  [fields |-> EXPORTED_FIELDS \o ADDED_FIELDS,
         grouped_lines |-> group_by_correlation_id(sorted_list),
         timestamp_of_last_entry |-> sorted_list[Len(sorted_list)].timestamp]

\* The file name _store_logs_as_csv gives a group.
group_filename(group) ==
    sanitize_filename(group.entries[1].timestamp \o <<"_">> \o group.key \o <<".csv">>)

\* Variant that ignores the file and always uses the default time.
load_last_included_timestamp_default(timestamp_file) == 0

\* The content of the watermark file as retrieve_logs reads it back.
load_last_included_timestamp(timestamp_file) ==
    IF timestamp_file.exists
    THEN IF timestamp_format_is_valid(timestamp_file.text)
         THEN get_datetime_from_timestamp(timestamp_file.text)
         ELSE 0
    ELSE 0

\* ------------------------------------------------------------------- state
VARIABLES
    store,            \* the log store: the records it holds, in export order
    wmFile,           \* the file last_included_timestamp: [exists, text]
    files,            \* the group files of the target directory: {[name, content]}
    pc,               \* where retrieve_logs is: idle, fetch, process, store
    first_timestamp,  \* retrieve_logs: first_timestamp
    lines,            \* retrieve_logs: lines (the rows fetched)
    fields,           \* retrieve_logs: fields
    grouped,          \* retrieve_logs: grouped_lines
    last_timestamp,   \* retrieve_logs: last_timestamp
    gi,               \* _store_logs_as_csv: position in grouped_dict.items()
    outcome,          \* how the last finished run ended
    runs,             \* number of runs started
    wmAtStart,        \* wmFile when the current (or last) run started
    filesAtStart,     \* files when the current (or last) run started
    written,          \* file names written by the current (or last) run
    fetchCount,       \* per store record: number of successful runs that fetched it
    addedSince,       \* a record was added since the last run started
    retry,            \* the current (or last) run follows a successful run, nothing added between
    lastStored,       \* time written by the last successful watermark write (-1: none)
    prevStored,       \* lastStored before that write
    wmAborted         \* some run failed while writing the watermark file

vars == <<store, wmFile, files, pc, first_timestamp, lines, fields, grouped,
          last_timestamp, gi, outcome, runs, wmAtStart, filesAtStart, written,
          fetchCount, addedSince, retry, lastStored, prevStored, wmAborted>>

runVars == <<first_timestamp, lines, fields, grouped, last_timestamp, gi>>
histVars == <<wmAtStart, filesAtStart, retry>>

\* GraylogAccess.get_log_entries: the rows from from_datetime on, in export order.
get_log_entries(from_datetime, fields_to_retrieve) ==
    SelectSeq(store, LAMBDA r :
        get_datetime_from_timestamp(r.timestamp) >= from_datetime)

Init ==
    /\ store = <<>>
    /\ wmFile = [exists |-> FALSE, text |-> <<>>]
    /\ files = {}
    /\ pc = "idle"
    /\ first_timestamp = 0
    /\ lines = <<>>
    /\ fields = <<>>
    /\ grouped = <<>>
    /\ last_timestamp = <<>>
    /\ gi = 0
    /\ outcome = "none"
    /\ runs = 0
    /\ wmAtStart = wmFile
    /\ filesAtStart = files
    /\ written = <<>>
    /\ fetchCount = <<>>
    /\ addedSince = FALSE
    /\ retry = FALSE
    /\ lastStored = -1
    /\ prevStored = -1
    /\ wmAborted = FALSE

\* The log store gains a record between two runs.
AddRecord ==
    /\ pc = "idle"
    /\ Len(store) < MaxStore
    /\ \E cid \in CorrelationIds, t \in 1..MaxTime, msg \in StoreMessages :
          store' = Append(store, [correlationId |-> cid,
                                  timestamp |-> FormatTimestamp(t),
                                  message |-> msg])
    /\ fetchCount' = Append(fetchCount, 0)
    /\ addedSince' = TRUE
    /\ UNCHANGED <<wmFile, files, pc, runVars, outcome, runs, histVars, written,
                   lastStored, prevStored, wmAborted>>

\* retrieve_logs up to the fetch: load the watermark, advance it.
StartRun ==
    /\ pc = "idle"
    /\ runs < MaxRuns
    /\ first_timestamp' = get_advanced_timestamp(load_last_included_timestamp(wmFile))
    /\ pc' = "fetch"
    /\ lines' = <<>>
    /\ fields' = <<>>
    /\ grouped' = <<>>
    /\ last_timestamp' = <<>>
    /\ gi' = 0
    /\ runs' = runs + 1
    /\ wmAtStart' = wmFile
    /\ filesAtStart' = files
    /\ written' = <<>>
    /\ retry' = (outcome \in {"success", "noop"} /\ ~addedSince)
    /\ addedSince' = FALSE
    /\ UNCHANGED <<store, wmFile, files, outcome, fetchCount, lastStored,
                   prevStored, wmAborted>>

\* Variant without the early return's frame: an empty fetch still writes the
\* watermark file (with the fetch-from time).
FetchStamping ==
    /\ pc = "fetch"
    /\ lines' = get_log_entries(first_timestamp, EXPORTED_FIELDS)
    /\ IF lines' = <<>>
       THEN /\ pc' = "idle"
            /\ outcome' = "noop"
            /\ wmFile' = [exists |-> TRUE, text |-> FormatTimestamp(first_timestamp)]
       ELSE /\ pc' = "process"
            /\ outcome' = outcome
            /\ wmFile' = wmFile
    /\ UNCHANGED <<store, files, first_timestamp, fields, grouped,
                   last_timestamp, gi, runs, histVars, written, fetchCount,
                   addedSince, lastStored, prevStored, wmAborted>>

\* The fetch returns; with no lines the run ends here.
Fetch ==
    /\ pc = "fetch"
    /\ lines' = get_log_entries(first_timestamp, EXPORTED_FIELDS)
    /\ IF lines' = <<>>
       THEN pc' = "idle" /\ outcome' = "noop"
       ELSE pc' = "process" /\ outcome' = outcome
    /\ UNCHANGED <<store, wmFile, files, first_timestamp, fields, grouped,
                   last_timestamp, gi, runs, histVars, written, fetchCount,
                   addedSince, lastStored, prevStored, wmAborted>>

\* The fetch raises: the run aborts.
FetchFail ==
    /\ pc = "fetch"
    /\ pc' = "idle"
    /\ outcome' = "abort_fetch"
    /\ UNCHANGED <<store, wmFile, files, runVars, runs, histVars, written,
                   fetchCount, addedSince, lastStored, prevStored, wmAborted>>

\* Variant that writes the watermark file before the group files.
ProcessLinesStoringFirst ==
    /\ pc = "process"
    /\ LET r == process_csv_lines(lines)
       IN  /\ fields' = r.fields
           /\ grouped' = add_consent(add_approach(r.grouped_lines))
           /\ last_timestamp' = r.timestamp_of_last_entry
           /\ wmFile' = [exists |-> TRUE, text |-> r.timestamp_of_last_entry]
    /\ gi' = 1
    /\ pc' = "store"
    /\ UNCHANGED <<store, files, first_timestamp, lines, outcome, runs, histVars,
                   written, fetchCount, addedSince, lastStored, prevStored,
                   wmAborted>>

\* Sort, group and label the fetched lines.
ProcessLines ==
    /\ pc = "process"
    /\ LET r == process_csv_lines(lines)
       IN  /\ fields' = r.fields
           /\ grouped' = add_consent(add_approach(r.grouped_lines))
           /\ last_timestamp' = r.timestamp_of_last_entry
    /\ gi' = 1
    /\ pc' = "store"
    /\ wmFile' = wmFile
    /\ UNCHANGED <<store, files, first_timestamp, lines, outcome, runs, histVars,
                   written, fetchCount, addedSince, lastStored, prevStored,
                   wmAborted>>

\* One iteration of _store_logs_as_csv: the file of the next group is written.
StoreGroup ==
    /\ pc = "store"
    /\ gi <= Len(grouped)
    /\ LET name == group_filename(grouped[gi])
           content == [header |-> fields, rows |-> grouped[gi].entries]
       IN  /\ files' = {f \in files : f.name # name}
                          \cup {[name |-> name, content |-> content]}
           /\ written' = Append(written, name)
    /\ gi' = gi + 1
    /\ UNCHANGED <<store, wmFile, pc, first_timestamp, lines, fields, grouped,
                   last_timestamp, outcome, runs, histVars, fetchCount,
                   addedSince, lastStored, prevStored, wmAborted>>

\* Writing the file of the next group raises: the run aborts.  The file is
\* either untouched (open failed) or left truncated (write failed).
StoreGroupFail ==
    /\ pc = "store"
    /\ gi <= Len(grouped)
    /\ LET name == group_filename(grouped[gi])
       IN  \/ files' = files
           \/ files' = {f \in files : f.name # name}
                          \cup {[name |-> name,
                                 content |-> [header |-> <<>>, rows |-> <<>>]]}
    /\ pc' = "idle"
    /\ outcome' = "abort_write"
    /\ UNCHANGED <<store, wmFile, runVars, runs, histVars, written, fetchCount,
                   addedSince, lastStored, prevStored, wmAborted>>

\* All groups are written: the watermark file is written and the run ends.
StoreTimestamp ==
    /\ pc = "store"
    /\ gi > Len(grouped)
    /\ wmFile' = [exists |-> TRUE, text |-> last_timestamp]
    /\ pc' = "idle"
    /\ outcome' = "success"
    /\ fetchCount' = [i \in 1..Len(store) |->
          IF get_datetime_from_timestamp(store[i].timestamp) >= first_timestamp
          THEN fetchCount[i] + 1 ELSE fetchCount[i]]
    /\ prevStored' = lastStored
    /\ lastStored' = get_datetime_from_timestamp(last_timestamp)
    /\ UNCHANGED <<store, files, runVars, runs, histVars, written, addedSince,
                   wmAborted>>

\* Writing the watermark file raises: the file is either untouched (open
\* failed) or left truncated (write failed).
StoreTimestampFail ==
    /\ pc = "store"
    /\ gi > Len(grouped)
    /\ \/ wmFile' = wmFile
       \/ wmFile' = [exists |-> TRUE, text |-> <<>>]
    /\ pc' = "idle"
    /\ outcome' = "abort_timestamp"
    /\ wmAborted' = TRUE
    /\ UNCHANGED <<store, files, runVars, runs, histVars, written, fetchCount,
                   addedSince, lastStored, prevStored>>

Next ==
    \/ AddRecord
    \/ StartRun
    \/ Fetch
    \/ FetchFail
    \/ ProcessLines
    \/ StoreGroup
    \/ StoreGroupFail
    \/ StoreTimestamp
    \/ StoreTimestampFail

Spec == Init /\ [][Next]_vars

\* ------------------------------------------ one run on arbitrary fetched lines
RECURSIVE SeqsUpTo(_, _)
SeqsUpTo(S, n) ==
    IF n = 0 THEN {<<>>}
    ELSE LET shorter == SeqsUpTo(S, n - 1)
         IN  shorter \cup {Append(s, x) : s \in shorter, x \in S}

FetchedRows ==
    {[correlationId |-> cid, timestamp |-> FormatTimestamp(t), message |-> msg] :
        cid \in CorrelationIds, t \in 1..MaxTime, msg \in Messages}

\* retrieve_logs right after a fetch that returned some lines.
InitFetched ==
    /\ store = <<>>
    /\ wmFile = [exists |-> FALSE, text |-> <<>>]
    /\ files = {}
    /\ pc = "process"
    /\ first_timestamp = 1
    /\ lines \in SeqsUpTo(FetchedRows, MaxLines) \ {<<>>}
    /\ fields = <<>>
    /\ grouped = <<>>
    /\ last_timestamp = <<>>
    /\ gi = 0
    /\ outcome = "none"
    /\ runs = 1
    /\ wmAtStart = wmFile
    /\ filesAtStart = files
    /\ written = <<>>
    /\ fetchCount = <<>>
    /\ addedSince = FALSE
    /\ retry = FALSE
    /\ lastStored = -1
    /\ prevStored = -1
    /\ wmAborted = FALSE

NextFetched ==
    \/ ProcessLines
    \/ StoreGroup
    \/ StoreTimestamp

SpecFetched == InitFetched /\ [][NextFetched]_vars

\* ------------------------------------------------------------------ claims
Time(row) == get_datetime_from_timestamp(row.timestamp)

Finished(o) == pc = "idle" /\ outcome = o

\* C1: the watermark file changes only at the end of a run, after every group
\* of the run was written to its file; after a run aborted by a fetch failure
\* or by a failed write of a group file, the watermark file is what it was when
\* the run started.
C1_WatermarkKeptOnAbort ==
    /\ (Finished("abort_fetch") \/ Finished("abort_write")) => wmFile = wmAtStart
    /\ wmFile # wmAtStart =>
          /\ pc = "idle"
          /\ outcome \in {"success", "abort_timestamp"}
          /\ Len(written) = Len(grouped)

\* A run wrote the file of its first group, failed on the second.
C1_Witness ==
    /\ Finished("abort_write")
    /\ Len(written) = 1
    /\ Len(grouped) = 2

\* C2: exactly-once retrieval: after a successful run (no run having failed on
\* the watermark file), with nothing added since, every record of the store
\* was fetched by exactly one successful run.
C2_ExactlyOnce ==
    ((Finished("success") \/ Finished("noop")) /\ ~addedSince /\ ~wmAborted) =>
        \A i \in 1..Len(store) : fetchCount[i] = 1

\* C3: a run that follows a successful run with no record added in between
\* fetches nothing: it writes no group file and leaves the watermark file as
\* it is.
C3_IdempotentRetry ==
    retry =>
        /\ pc \in {"fetch", "idle"}
        /\ written = <<>>
        /\ files = filesAtStart
        /\ wmFile = wmAtStart
        /\ pc = "idle" => outcome \in {"noop", "abort_fetch"}

\* The second of two runs ended, the first having stored a watermark and files.
C3_Witness ==
    /\ retry
    /\ Finished("noop")
    /\ wmFile.exists
    /\ files # {}

\* C4: as long as every watermark write succeeded, the fetch-from time of a
\* run is strictly greater than the watermark the previous successful run
\* stored, and the stored watermark never decreases.
C4_WatermarkMonotonic ==
    ~wmAborted =>
        /\ pc # "idle" => first_timestamp > lastStored
        /\ prevStored <= lastStored

\* A third run starts after two runs that each stored a watermark.
C4_Witness ==
    /\ ~wmAborted
    /\ pc = "fetch"
    /\ prevStored >= 1
    /\ lastStored > prevStored
    /\ first_timestamp = lastStored + 1

\* The rows placed in a group by the last run.
RetainedRows ==
    UNION {{grouped[k].entries[j] : j \in 1..Len(grouped[k].entries)} :
              k \in 1..Len(grouped)}

\* C5 as stated: after a successful run the watermark file holds the timestamp
\* of the chronologically last retained record, advanced by one increment.
C5_LastRetainedAdvanced ==
    (Finished("success") /\ RetainedRows # {}) =>
        \E last \in RetainedRows :
            /\ \A row \in RetainedRows : Time(row) <= Time(last)
            /\ wmFile.text = FormatTimestamp(get_advanced_timestamp(Time(last)))

\* C5 amended: after a successful run the watermark file holds, unadvanced,
\* the timestamp of the chronologically last record fetched in that run,
\* whether or not that record has a correlationId.
C5_LastFetched ==
    Finished("success") =>
        /\ wmFile.exists
        /\ \E i \in 1..Len(lines) : wmFile.text = lines[i].timestamp
        /\ \A i \in 1..Len(lines) : Time(lines[i]) <= get_datetime_from_timestamp(wmFile.text)

\* The last record in time was fetched first and has no correlationId.
C5_Witness ==
    /\ Finished("success")
    /\ Len(lines) = 2
    /\ lines[1].correlationId = <<>>
    /\ lines[2].correlationId # <<>>
    /\ Time(lines[1]) > Time(lines[2])

SameRow(entry, line) ==
    /\ entry.correlationId = line.correlationId
    /\ entry.timestamp = line.timestamp
    /\ entry.message = line.message

Processed == pc \in {"store", "idle"}

\* C6: every group is non-empty, has a non-empty key, and its entries are
\* exactly the fetched lines with that correlationId, each once, in ascending
\* timestamp order, lines of equal timestamp in fetch order.
C6_GroupingCorrect ==
    Processed =>
        \A k \in 1..Len(grouped) :
            LET key == grouped[k].key
                entries == grouped[k].entries
                mine == {i \in 1..Len(lines) : lines[i].correlationId = key}
            IN  /\ Len(entries) > 0
                /\ key # <<>>
                /\ \A j \in 1..Len(entries) : entries[j].correlationId = key
                /\ Len(entries) = Cardinality(mine)
                /\ \E p \in [1..Len(entries) -> mine] :
                      /\ \A j \in 1..Len(entries) : SameRow(entries[j], lines[p[j]])
                      /\ \A i, j \in 1..Len(entries) : i < j =>
                            \/ Time(lines[p[i]]) < Time(lines[p[j]])
                            \/ /\ Time(lines[p[i]]) = Time(lines[p[j]])
                               /\ p[i] < p[j]

\* Two lines of one group fetched in descending timestamp order.
C6_Witness ==
    /\ Processed
    /\ Len(lines) = 2
    /\ lines[1].correlationId # <<>>
    /\ lines[1].correlationId = lines[2].correlationId
    /\ Time(lines[1]) > Time(lines[2])
    /\ Len(grouped) = 1

HasSignal(message) ==
    \E w \in 1..Len(APPROACHES_SIGNAL_WORDS) : Found(message, APPROACHES_SIGNAL_WORDS[w])

\* C7: every entry of a group carries the label of the lowest table index
\* signal contained in the first message of the group that contains any
\* signal, and 'not available' when no message of the group contains one.
C7_ApproachLabeling ==
    Processed =>
        \A k \in 1..Len(grouped) :
            LET entries == grouped[k].entries
                hits == {j \in 1..Len(entries) : HasSignal(entries[j].message)}
                first == CHOOSE j \in hits : \A h \in hits : j <= h
                words == {w \in 1..Len(APPROACHES_SIGNAL_WORDS) :
                             Found(entries[first].message, APPROACHES_SIGNAL_WORDS[w])}
                expected == IF hits = {} THEN "not available"
                            ELSE APPROACHES_TYPES[CHOOSE w \in words : \A v \in words : w <= v]
            IN  \A j \in 1..Len(entries) : entries[j].approach = expected

\* The first message holds OAUTH and EMBEDDED, a later one REDIRECT.
C7_Witness ==
    /\ Processed
    /\ \E k \in 1..Len(grouped) :
          /\ Len(grouped[k].entries) = 2
          /\ grouped[k].entries[1].message = <<"approach=OAUTH", "approach=EMBEDDED">>
          /\ Found(grouped[k].entries[2].message, "approach=REDIRECT")
          /\ grouped[k].entries[2].approach = "embedded"

\* The consent type of the keyword at a table index.
ConsentTypeOf(w) == IF w \in {1, 3} THEN CONSENT_TYPES[1] ELSE CONSENT_TYPES[2]

\* C8: the consent of every entry is the type of the first keyword, in table
\* order, that its own message contains, and 'not available' without one.
C8_ConsentFirstKeyword ==
    Processed =>
        \A k \in 1..Len(grouped) : \A j \in 1..Len(grouped[k].entries) :
            LET entry == grouped[k].entries[j]
                words == {w \in 1..Len(CONSENT_SIGNAL_WORDS) :
                             Found(entry.message, CONSENT_SIGNAL_WORDS[w])}
            IN  entry.consent =
                    IF words = {} THEN "not available"
                    ELSE ConsentTypeOf(CHOOSE w \in words : \A v \in words : w <= v)

\* C9: a run whose fetch returned no lines ends without error, writes no
\* group file and leaves the watermark file as it is.
C9_EmptyFetchNoOp ==
    (pc = "idle" /\ outcome \notin {"none", "abort_fetch"} /\ lines = <<>>) =>
        /\ outcome = "noop"
        /\ written = <<>>
        /\ files = filesAtStart
        /\ wmFile = wmAtStart

\* A run found nothing new although the store gained a record before it.
C9_Witness ==
    /\ Finished("noop")
    /\ lines = <<>>
    /\ ~retry
    /\ wmFile.exists
    /\ runs >= 2

\* C10: after a successful run there are as many files as groups, and each
\* group's file holds the records of that group.
C10_OneFilePerGroup ==
    (Finished("success") /\ filesAtStart = {}) =>
        /\ Cardinality(files) = Len(grouped)
        /\ \A k \in 1..Len(grouped) :
              \E f \in files :
                  /\ f.name = group_filename(grouped[k])
                  /\ f.content.rows = grouped[k].entries

====
